---- MODULE Spec2Model ----
(***************************************************************************)
(* A model of the contextual-bandit core of Pearl:                         *)
(*   - DiscreteContextualBanditReplayBuffer (push / sample / __len__),     *)
(*   - ContextualBanditEnvironment.step,                                   *)
(*   - DeepLinearBandit.act (arg-max selection),                           *)
(*   - SparseRewardEnvironment, continuous and discrete,                   *)
(*   - the LinUCB statistics update.                                       *)
(* Python values are records [form, shape, data]: form "py" is a plain     *)
(* Python scalar or list, form "tensor" is a torch.Tensor with its shape   *)
(* and its elements in row-major order.  The numbers of the sparse-reward  *)
(* environment are Python ints and floats, the floats rounded as binary64. *)
(***************************************************************************)
EXTENDS Integers, Sequences, FiniteSets

VARIABLES
    capacity,   \* DiscreteContextualBanditReplayBuffer.capacity
    memory,     \* DiscreteContextualBanditReplayBuffer.memory (the deque)
    count,      \* history: the number of push calls so far
    seqs,       \* history: for each element of memory, the number of the push that stored it
    pre,        \* history: memory as it was before the last call
    ret,        \* the last call on the buffer and what it returned or raised
    envSteps,   \* history: the action of every ContextualBanditEnvironment.step call
    envCalls,   \* history: every get_reward call, its action and the reward it returned
    envResult,  \* the ActionResult the last step call returned
    actIn,      \* the scores DeepLinearBandit.act last selected from, one row per state
    actOut,     \* what the last act call returned
    sCfg,       \* SparseRewardEnvironment: the constructor's arguments and what it built
    sPos,       \* SparseRewardEnvironment._agent_position
    sGoal,      \* SparseRewardEnvironment._goal
    sStepCount, \* SparseRewardEnvironment._step_count
    sRet,       \* the last call on the environment and what it returned or raised
    linA,       \* LinUCB statistics: the matrix A
    linB,       \* LinUCB statistics: the vector b
    linBatches, \* history: the batches of every update call so far, in order
    memory2,    \* the memory of a second buffer, pushed with other ignored arguments
    differed    \* history: whether the last two pushes differed in an ignored argument

bufVars == <<capacity, memory, count, seqs, pre, ret>>
envVars == <<envSteps, envCalls, envResult>>
actVars == <<actIn, actOut>>
sparseVars == <<sCfg, sPos, sGoal, sStepCount, sRet>>
linVars == <<linA, linB, linBatches>>
twinVars == <<memory2, differed>>
restVars == <<sparseVars, linVars, twinVars>>
vars == <<bufVars, envVars, actVars, restVars>>

----------------------------------------------------------------------------
(* Bounds of the model. *)

MaxCapacity == 2
MaxPushes == 3
MaxSteps == 4
MaxActionCount == 3
MaxRows == 2
MaxEpisodeSteps == 2
MaxLinRows == 3
MaxTwinPushes == 2

----------------------------------------------------------------------------
(* Python and torch values. *)

PyScalar(v) == [form |-> "py", shape |-> <<>>, data |-> <<v>>]
PyVector(vs) == [form |-> "py", shape |-> <<Len(vs)>>, data |-> vs]
Tensor(shape, data) == [form |-> "tensor", shape |-> shape, data |-> data]
NoValue == [form |-> "none", shape |-> <<>>, data |-> <<>>]

IsTensor(v) == v.form = "tensor"

\* The raw inputs a caller passes to push.
States == {PyVector(<<0>>), PyVector(<<1>>)}
Actions == {PyScalar(0), Tensor(<<1>>, <<0>>), Tensor(<<1>>, <<1>>)}
Rewards == {0, 1}
BatchSizes == (-1)..(MaxCapacity + 1)

Transition(state, action, reward) ==
    [state |-> state, action |-> action, reward |-> reward]

TransitionBatch(state, action, reward) ==
    [state |-> state, action |-> action, reward |-> reward]

NoBatch == TransitionBatch(NoValue, NoValue, NoValue)

RECURSIVE Product(_)
Product(s) == IF s = <<>> THEN 1 ELSE Head(s) * Product(Tail(s))

RECURSIVE Flatten(_)
Flatten(ts) == IF ts = <<>> THEN <<>> ELSE Head(ts).data \o Flatten(Tail(ts))

RECURSIVE SumLeading(_)
SumLeading(ts) ==
    IF ts = <<>> THEN 0 ELSE Head(Head(ts).shape) + SumLeading(Tail(ts))

\* torch.cat(tensors) along dimension 0.
TorchCat(ts) ==
    IF ts = <<>> THEN [error |-> "RuntimeError", value |-> NoValue]
    ELSE IF \E i \in 1..Len(ts) : ~IsTensor(ts[i])
    THEN [error |-> "TypeError", value |-> NoValue]
    ELSE IF \E i \in 1..Len(ts) : ts[i].shape = <<>>
    THEN [error |-> "RuntimeError", value |-> NoValue]
    ELSE IF \E i \in 1..Len(ts) : Tail(ts[i].shape) # Tail(ts[1].shape)
    THEN [error |-> "RuntimeError", value |-> NoValue]
    ELSE [error |-> "none",
          value |-> Tensor(<<SumLeading(ts)>> \o Tail(ts[1].shape), Flatten(ts))]

\* torch.stack(tensors) along a new dimension 0.
TorchStack(ts) ==
    IF ts = <<>> THEN [error |-> "RuntimeError", value |-> NoValue]
    ELSE IF \E i \in 1..Len(ts) : ~IsTensor(ts[i])
    THEN [error |-> "TypeError", value |-> NoValue]
    ELSE IF \E i \in 1..Len(ts) : ts[i].shape # ts[1].shape
    THEN [error |-> "RuntimeError", value |-> NoValue]
    ELSE [error |-> "none",
          value |-> Tensor(<<Len(ts)>> \o ts[1].shape, Flatten(ts))]

\* TensorBasedReplayBuffer._process_single_state: the state as a tensor with
\* a leading batch dimension of 1.
process_single_state(state) == Tensor(<<1>> \o state.shape, state.data)

\* TensorBasedReplayBuffer._process_single_reward: the reward as a tensor of
\* shape [1].
process_single_reward(reward) == Tensor(<<1>>, <<reward>>)

\* Mutant of DequeAppend: a full deque refuses the new element instead of
\* dropping its oldest one.
DequeAppendDropNewest(q, x, maxlen) ==
    IF Len(q) >= maxlen THEN q ELSE Append(q, x)

\* collections.deque.append on a deque built with maxlen.
DequeAppend(q, x, maxlen) ==
    IF maxlen = 0 THEN <<>>
    ELSE IF Len(q) >= maxlen THEN Tail(q) \o <<x>>
    ELSE Append(q, x)

\* Mutant of push: memory is a plain list, which a push only ever extends.
pushUnbounded(mem, cap, state, action, reward) ==
    Append(mem,
           Transition(process_single_state(state),
                      action,
                      process_single_reward(reward)))

\* push: what self.memory is after the call.
push(mem, cap, state, action, reward) ==
    DequeAppend(mem,
                Transition(process_single_state(state),
                           action,
                           process_single_reward(reward)),
                cap)

\* Mutant of DistinctPositions: the draw of random.choices, with replacement.
PositionsWithReplacement(n, k) == [1..k -> 1..n]

\* The index sequences random.sample may draw: k distinct positions of 1..n.
DistinctPositions(n, k) ==
    {s \in [1..k -> 1..n] : \A i, j \in 1..k : i # j => s[i] # s[j]}

\* Mutant of RandomSample: a request larger than the population is cut down
\* to the population instead of raising.
RandomSampleClamped(n, k) ==
    IF k < 0
    THEN {[error |-> "ValueError", idx |-> <<>>]}
    ELSE {[error |-> "none", idx |-> s] :
            s \in DistinctPositions(n, IF k > n THEN n ELSE k)}

\* random.sample(population, k) on a population of n elements.
RandomSample(n, k) ==
    IF k < 0 \/ k > n
    THEN {[error |-> "ValueError", idx |-> <<>>]}
    ELSE {[error |-> "none", idx |-> s] : s \in DistinctPositions(n, k)}

\* Mutant of BuildBatch: the rewards are collected in the reverse order of
\* the states and actions.
BuildBatchMisaligned(mem, idx) ==
    LET n == Len(idx)
        samples == [i \in 1..n |-> mem[idx[i]]]
        state == TorchCat([i \in 1..n |-> samples[i].state])
        action == TorchStack([i \in 1..n |-> samples[i].action])
        reward == TorchCat([i \in 1..n |-> samples[n + 1 - i].reward])
    IN  IF state.error # "none" THEN [error |-> state.error, batch |-> NoBatch]
        ELSE IF action.error # "none" THEN [error |-> action.error, batch |-> NoBatch]
        ELSE IF reward.error # "none" THEN [error |-> reward.error, batch |-> NoBatch]
        ELSE [error |-> "none",
              batch |-> TransitionBatch(state.value, action.value, reward.value)]

\* Mutant of BuildBatch: an empty draw yields an empty batch instead of
\* reaching torch.cat with an empty list.
BuildBatchEmptyOk(mem, idx) ==
    LET n == Len(idx)
        samples == [i \in 1..n |-> mem[idx[i]]]
        state == TorchCat([i \in 1..n |-> samples[i].state])
        action == TorchStack([i \in 1..n |-> samples[i].action])
        reward == TorchCat([i \in 1..n |-> samples[i].reward])
        empty == Tensor(<<0>>, <<>>)
    IN  IF n = 0 THEN [error |-> "none", batch |-> TransitionBatch(empty, empty, empty)]
        ELSE IF state.error # "none" THEN [error |-> state.error, batch |-> NoBatch]
        ELSE IF action.error # "none" THEN [error |-> action.error, batch |-> NoBatch]
        ELSE IF reward.error # "none" THEN [error |-> reward.error, batch |-> NoBatch]
        ELSE [error |-> "none",
              batch |-> TransitionBatch(state.value, action.value, reward.value)]

\* sample: the body after random.sample has drawn the positions idx.
\* The three fields are built in the order state, action, reward; the first
\* torch call that raises ends the call.
BuildBatch(mem, idx) ==
    LET samples == [i \in 1..Len(idx) |-> mem[idx[i]]]
        state == TorchCat([i \in 1..Len(idx) |-> samples[i].state])
        action == TorchStack([i \in 1..Len(idx) |-> samples[i].action])
        reward == TorchCat([i \in 1..Len(idx) |-> samples[i].reward])
    IN  IF state.error # "none" THEN [error |-> state.error, batch |-> NoBatch]
        ELSE IF action.error # "none" THEN [error |-> action.error, batch |-> NoBatch]
        ELSE IF reward.error # "none" THEN [error |-> reward.error, batch |-> NoBatch]
        ELSE [error |-> "none",
              batch |-> TransitionBatch(state.value, action.value, reward.value)]

\* sample(batch_size), given the draw of random.sample.
sample(mem, draw) ==
    IF draw.error # "none" THEN [error |-> draw.error, batch |-> NoBatch]
    ELSE BuildBatch(mem, draw.idx)

----------------------------------------------------------------------------
(* ContextualBanditEnvironment. *)

None == "None"

EnvActions == {0, 1}
EnvRewards == {0, 1}

ActionResult(observation, reward, terminated, truncated, info) ==
    [observation |-> observation, reward |-> reward, terminated |-> terminated,
     truncated |-> truncated, info |-> info]

NoResult == ActionResult(None, 0, FALSE, FALSE, None)

\* get_reward(action) is abstract: an implementation returns some reward r.
\* The call is recorded in the history of calls.
get_reward(action, r, calls) ==
    [value |-> r, calls |-> Append(calls, [action |-> action, reward |-> r])]

\* Mutant of step: get_reward is called once for the reward and once more.
stepCallsTwice(action, r, calls) ==
    LET first == get_reward(action, r, calls)
        second == get_reward(action, r, first.calls)
    IN  [result |-> ActionResult(None, second.value, TRUE, FALSE, None),
         calls |-> second.calls]

\* step(action)
step(action, r, calls) ==
    LET got == get_reward(action, r, calls)
    IN  [result |-> ActionResult(None, got.value, TRUE, FALSE, None),
         calls |-> got.calls]

----------------------------------------------------------------------------
(* DeepLinearBandit.act on a discrete action space. *)

ScoreValues == {0, 1}

\* Mutant of ArgMaxFirst: among equal best scores the last index wins.
ArgMaxLast(row) ==
    CHOOSE i \in 1..Len(row) :
        /\ \A j \in 1..Len(row) : row[j] <= row[i]
        /\ \A j \in (i + 1)..Len(row) : row[j] < row[i]

\* The position of the best score, the first one among equals.
ArgMaxFirst(row) ==
    CHOOSE i \in 1..Len(row) :
        /\ \A j \in 1..Len(row) : row[j] <= row[i]
        /\ \A j \in 1..(i - 1) : row[j] < row[i]

\* act: one 0-based action index per row of scores.
act(scores) == [r \in 1..Len(scores) |-> ArgMaxFirst(scores[r]) - 1]

NoAct == [kind |-> "none", value |-> <<>>]

----------------------------------------------------------------------------
(* The LinUCB statistics {A, b} and their update. *)

\* The rows of a batch: an embedding, its reward and its weight.
Embeddings == {<<1, 0>>, <<1, 2>>}
LinRewards == {-1, 1}
Weights == {1, 2}
LinRows == [x : Embeddings, reward : LinRewards, weight : Weights]

\* A starts as the identity, b as the zero vector.
InitialStats == [A |-> <<<<1, 0>>, <<0, 1>>>>, b |-> <<0, 0>>]

\* One row: A += weight * x (outer) x, b += weight * reward * x.
update_row(stats, row) ==
    [A |-> [i \in DOMAIN stats.A |->
              [j \in DOMAIN stats.A[i] |->
                  stats.A[i][j] + row.weight * row.x[i] * row.x[j]]],
     b |-> [i \in DOMAIN stats.b |->
              stats.b[i] + row.weight * row.reward * row.x[i]]]

RECURSIVE UpdateRows(_, _)
UpdateRows(stats, batch) ==
    IF batch = <<>> THEN stats
    ELSE UpdateRows(update_row(stats, Head(batch)), Tail(batch))

\* Mutant of update: the statistics are recomputed from the batch alone.
update_from_scratch(stats, batch) == UpdateRows(InitialStats, batch)

\* update(embeddings, rewards, weights): the rows of the batch in order.
update(stats, batch) == UpdateRows(stats, batch)

InitLin ==
    /\ linA = InitialStats.A
    /\ linB = InitialStats.b
    /\ linBatches = <<>>

----------------------------------------------------------------------------
(* push with all its arguments. *)

\* The arguments of push that the contextual bandit buffer does not need.
NextStates == {NoValue, PyVector(<<1>>)}
ActionSpaces == {{}, {0, 1}}
OtherArguments ==
    [next_state : NextStates, curr_available_actions : ActionSpaces,
     next_available_actions : ActionSpaces, action_space : ActionSpaces,
     done : BOOLEAN]

ReferenceArguments ==
    [next_state |-> NoValue, curr_available_actions |-> {},
     next_available_actions |-> {}, action_space |-> {}, done |-> TRUE]

\* Mutant of push_call: a transition that is not done stores its next state.
push_call_next_state(mem, cap, state, action, reward, others) ==
    push(mem, cap, IF others.done THEN state ELSE others.next_state, action, reward)

\* push(state, action, reward, next_state, curr_available_actions,
\* next_available_actions, action_space, done)
push_call(mem, cap, state, action, reward, others) ==
    push(mem, cap, state, action, reward)

InitTwin ==
    /\ memory2 = <<>>
    /\ differed = FALSE

----------------------------------------------------------------------------
(* Python numbers.  An int is exact, of any size.  A float is an IEEE-754    *)
(* binary64 number: a finite one is sign * m * 2^e for a natural m below    *)
(* 2^53 and e from -1074 up, and there are the two infinities and NaN.  The *)
(* model keeps a finite value exactly, as the record [sign, m, e] with m    *)
(* odd (the number 0 has sign 0, m = 0, e = 0); the records with m = 0 and  *)
(* sign 1 or -1 are the infinities, and the one with sign 0 and e = 1 is    *)
(* NaN.  The exact result of a float operation is rounded to 53 bits (to    *)
(* fewer below 2^-1022), ties to even, and to an infinity from 2^1024 on.   *)
(* The natural m is a sequence of 15-bit limbs, least significant first,    *)
(* so that no product of two limbs leaves 32 bits.  A Python number is a    *)
(* value with its type, [kind, value]: int + int is exact and every other   *)
(* sum is a float sum.  -0.0 is kept as 0.0: the environment can only get   *)
(* it as a delta, where it adds like 0.0 to every position there is, and    *)
(* inside math.dist, whose result is the same float with either zero.       *)

LimbBits == 15
LimbBase == 32768
FloatBits == 53
MinExponent == -1074
MaxExponent == 1024
\* 2^k for k below LimbBits
Pow2(k) ==
    <<1, 2, 4, 8, 16, 32, 64, 128, 256, 512, 1024, 2048, 4096, 8192, 16384>>[k + 1]

RECURSIVE BigTrim(_)
BigTrim(a) ==
    IF a # <<>> /\ a[Len(a)] = 0 THEN BigTrim(SubSeq(a, 1, Len(a) - 1)) ELSE a

RECURSIVE BigFromNat(_)
BigFromNat(n) ==
    IF n = 0 THEN <<>> ELSE <<n % LimbBase>> \o BigFromNat(n \div LimbBase)

Zeros(k) == [i \in 1..k |-> 0]

Limb(a, i) == IF i <= Len(a) THEN a[i] ELSE 0

RECURSIVE BigAddFrom(_, _, _, _)
BigAddFrom(a, b, i, carry) ==
    IF i > Len(a) /\ i > Len(b)
    THEN IF carry = 0 THEN <<>> ELSE <<carry>>
    ELSE LET t == Limb(a, i) + Limb(b, i) + carry
         IN  <<t % LimbBase>> \o BigAddFrom(a, b, i + 1, t \div LimbBase)

BigAdd(a, b) == BigAddFrom(a, b, 1, 0)

RECURSIVE BigSubFrom(_, _, _, _)
BigSubFrom(a, b, i, borrow) ==
    IF i > Len(a) THEN <<>>
    ELSE LET t == Limb(a, i) - Limb(b, i) - borrow
         IN  <<IF t < 0 THEN t + LimbBase ELSE t>>
                \o BigSubFrom(a, b, i + 1, IF t < 0 THEN 1 ELSE 0)

\* a - b for a >= b
BigSub(a, b) == BigTrim(BigSubFrom(a, b, 1, 0))

RECURSIVE BigCmpFrom(_, _, _)
BigCmpFrom(a, b, i) ==
    IF i = 0 THEN 0
    ELSE IF a[i] # b[i] THEN (IF a[i] < b[i] THEN -1 ELSE 1)
    ELSE BigCmpFrom(a, b, i - 1)

\* -1, 0 or 1 as a < b, a = b or a > b
BigCmp(a, b) ==
    IF Len(a) # Len(b) THEN (IF Len(a) < Len(b) THEN -1 ELSE 1)
    ELSE BigCmpFrom(a, b, Len(a))

RECURSIVE BigMulSmallFrom(_, _, _, _)
BigMulSmallFrom(a, c, i, carry) ==
    IF i > Len(a)
    THEN IF carry = 0 THEN <<>> ELSE <<carry>>
    ELSE LET t == a[i] * c + carry
         IN  <<t % LimbBase>> \o BigMulSmallFrom(a, c, i + 1, t \div LimbBase)

\* a * c for a limb c
BigMulSmall(a, c) == IF c = 0 THEN <<>> ELSE BigMulSmallFrom(a, c, 1, 0)

RECURSIVE BigMulFrom(_, _, _)
BigMulFrom(a, b, j) ==
    IF j > Len(b) THEN <<>>
    ELSE LET rest == BigMulFrom(a, b, j + 1)
         IN  BigAdd(BigMulSmall(a, b[j]),
                    IF rest = <<>> THEN <<>> ELSE <<0>> \o rest)

\* a * b, limb by limb of the shorter one
BigMul(a, b) ==
    IF a = <<>> THEN <<>>
    ELSE IF Len(a) < Len(b) THEN BigMulFrom(b, a, 1)
    ELSE BigMulFrom(a, b, 1)

\* a * 2^k
BigShl(a, k) ==
    IF a = <<>> \/ k = 0 THEN a
    ELSE Zeros(k \div LimbBits) \o BigMulSmall(a, Pow2(k % LimbBits))

\* a \div 2^k
BigShr(a, k) ==
    LET d == k \div LimbBits
        p == Pow2(k % LimbBits)
        b == IF d >= Len(a) THEN <<>> ELSE SubSeq(a, d + 1, Len(a))
    IN  BigTrim([i \in 1..Len(b) |->
                    (b[i] \div p)
                    + (IF i < Len(b) THEN (b[i + 1] % p) * (LimbBase \div p) ELSE 0)])

RECURSIVE SmallBitLen(_)
SmallBitLen(n) == IF n = 0 THEN 0 ELSE 1 + SmallBitLen(n \div 2)

\* The number of bits of a.
BigBitLen(a) ==
    IF a = <<>> THEN 0 ELSE LimbBits * (Len(a) - 1) + SmallBitLen(a[Len(a)])

RECURSIVE SmallTrailingZeros(_)
SmallTrailingZeros(n) ==
    IF n % 2 = 1 THEN 0 ELSE 1 + SmallTrailingZeros(n \div 2)

RECURSIVE BigTrailingZeros(_)
BigTrailingZeros(a) ==
    IF Head(a) = 0 THEN LimbBits + BigTrailingZeros(Tail(a))
    ELSE SmallTrailingZeros(Head(a))

\* One digit of a long division: the greatest d below LimbBase with
\* d * v <= u.  The digit is guessed from the two top limbs of u and the
\* top limb of v, which never gives too little (and at most 2 too much when
\* that limb of v is LimbBase / 2 or more), and lowered until it fits.
RECURSIVE BigDigitFrom(_, _, _)
BigDigitFrom(u, v, d) ==
    IF BigCmp(BigMulSmall(v, d), u) > 0 THEN BigDigitFrom(u, v, d - 1) ELSE d
BigDigit(u, v) ==
    LET n == Len(v)
        top == IF Len(u) > n THEN u[n + 1] * LimbBase + u[n]
               ELSE IF Len(u) = n THEN u[n] ELSE 0
        guess == top \div v[n]
    IN  BigDigitFrom(u, v, IF guess > LimbBase - 1 THEN LimbBase - 1 ELSE guess)

\* The long division of a by v, one limb of a for each digit from the top:
\* st holds the limb i to take next, the digits q so far and the rest r.
RECURSIVE BigDivFrom(_, _, _)
BigDivFrom(a, v, st) ==
    IF st.i = 0 THEN st
    ELSE LET digit(u, d) ==
                 [i |-> st.i - 1, q |-> <<d>> \o st.q,
                  r |-> BigSub(u, BigMulSmall(v, d))]
             down(u) == digit(u, BigDigit(u, v))
         IN  BigDivFrom(a, v, down(BigTrim(<<a[st.i]>> \o st.r)))

\* a \div v for v > 0, and whether v divides a: both are scaled first to make
\* the top limb of v LimbBase / 2 or more.
BigDiv(a, v) ==
    LET s == LimbBits - SmallBitLen(v[Len(v)])
        result(st) == [q |-> BigTrim(st.q), exact |-> st.r = <<>>]
        from(b) == BigDivFrom(b, BigShl(v, s), [i |-> Len(b), q |-> <<>>, r |-> <<>>])
    IN  result(from(BigShl(a, s)))

\* The greatest r with r * r <= n, for n below 2^30: five bits of r at a
\* time from the top, w being the weight of the five bits.
RECURSIVE SmallSqrtFrom(_, _, _)
SmallSqrtFrom(n, r, w) ==
    IF w = 0 THEN r
    ELSE SmallSqrtFrom(n,
             r + w * (CHOOSE c \in 0..31 :
                          /\ (r + c * w) * (r + c * w) <= n
                          /\ c = 31 \/ (r + (c + 1) * w) * (r + (c + 1) * w) > n),
             w \div 32)
SmallSqrt(n) == SmallSqrtFrom(n, 0, 1024)

\* One digit of a square root: the greatest d below LimbBase with
\* (2 * root * LimbBase + d) * d <= u, guessed as u \div (2 * root * LimbBase)
\* and lowered until it fits.
RECURSIVE BigRootDigitFrom(_, _, _)
BigRootDigitFrom(u, root, d) ==
    IF BigCmp(BigMulSmall(BigAdd(BigShl(root, LimbBits + 1), <<d>>), d), u) > 0
    THEN BigRootDigitFrom(u, root, d - 1) ELSE d
BigRootDigit(u, root) ==
    BigRootDigitFrom(u, root, BigDigit(BigShr(u, LimbBits + 1), root))

\* The square root of a, two limbs of a for each digit of the root from the
\* top: st holds the lower limb i of the two to take next, the digits of the
\* root so far and the rest of a above them.
RECURSIVE BigSqrtFrom(_, _)
BigSqrtFrom(a, st) ==
    IF st.i < 1 THEN st
    ELSE LET digit(u, d) ==
                 [i |-> st.i - 2, root |-> <<d>> \o st.root,
                  rest |-> BigSub(u, BigMulSmall(
                               BigAdd(BigShl(st.root, LimbBits + 1), <<d>>), d))]
             down(u) == digit(u, BigRootDigit(u, st.root))
         IN  BigSqrtFrom(a, down(BigTrim(<<a[st.i], a[st.i + 1]>> \o st.rest)))

\* The greatest root with root * root <= a, and the rest a - root * root, for
\* a of an even number of limbs whose top two limbs hold 2^28 or more.
BigSqrt(a) ==
    LET n == Len(a)
        first(top, r) ==
            [i |-> n - 3, root |-> <<r>>, rest |-> BigFromNat(top - r * r)]
        root(top) == first(top, SmallSqrt(top))
    IN  BigSqrtFrom(a, root(a[n] * LimbBase + a[n - 1]))

\* The member of a set of one member: The({e : x \in {v}}) is e for x = v.
The(S) == CHOOSE x \in S : TRUE

\* The natural a, for one that fits an integer of the model.
RECURSIVE BigToNat(_)
BigToNat(a) == IF a = <<>> THEN 0 ELSE Head(a) + LimbBase * BigToNat(Tail(a))

Zero == [sign |-> 0, m |-> <<>>, e |-> 0]
NaN == [sign |-> 0, m |-> <<>>, e |-> 1]
Inf(sign) == [sign |-> sign, m |-> <<>>, e |-> 0]

IsInf(x) == x.m = <<>> /\ x.sign # 0

\* sign * m * 2^e in its one record: m odd.
Num(sign, m, e) ==
    IF sign = 0 \/ m = <<>> THEN Zero
    ELSE IF m[1] % 2 = 1 THEN [sign |-> sign, m |-> m, e |-> e]
    ELSE LET z == BigTrailingZeros(m)
         IN  [sign |-> sign, m |-> BigShr(m, z), e |-> e + z]

\* The value of an int that fits an integer of the model.
FromInt(n) ==
    IF n < 0 THEN Num(-1, BigFromNat(0 - n), 0) ELSE Num(1, BigFromNat(n), 0)

Neg(x) == [x EXCEPT !.sign = 0 - x.sign]

\* x + y of two finite values, exactly
ExactAdd(x, y) ==
    IF x.sign = 0 THEN y
    ELSE IF y.sign = 0 THEN x
    ELSE LET e == IF x.e < y.e THEN x.e ELSE y.e
             a == BigShl(x.m, x.e - e)
             b == BigShl(y.m, y.e - e)
             c == BigCmp(a, b)
         IN  IF x.sign = y.sign THEN Num(x.sign, BigAdd(a, b), e)
             ELSE IF c = 0 THEN Zero
             ELSE IF c > 0 THEN Num(x.sign, BigSub(a, b), e)
             ELSE Num(y.sign, BigSub(b, a), e)

\* x + y of two finite values as far as rounding and comparing go: exactly,
\* unless one of them ends more than 200 bits below the leading bit of the
\* other; that one is replaced by a value of its sign that far below, which
\* rounds to 53 bits as the sum does and leaves it on the same side of every
\* value of fewer bits.
Top(x) == x.e + BigBitLen(x.m)
StickyAdd(x, y) ==
    LET sticky(u, v) ==
            IF u.sign = 0 \/ v.sign = 0 \/ Top(u) + 200 >= Top(v) THEN u
            ELSE [sign |-> u.sign, m |-> <<1>>, e |-> Top(v) - 201]
    IN  ExactAdd(sticky(x, y), sticky(y, x))

\* x * y of two finite values, exactly
ExactMul(x, y) == Num(x.sign * y.sign, BigMul(x.m, y.m), x.e + y.e)

\* The outcome of a comparison with NaN: neither less, equal nor greater.
Unordered == 2

\* -1, 0 or 1 as x < y, x = y or x > y, and Unordered with a NaN: by the
\* signs, then by the exponents of the leading bits, then by the magnitudes
\* brought to one exponent.  An int and a float compare by their values.
Cmp(x, y) ==
    IF x = NaN \/ y = NaN THEN Unordered
    ELSE IF x.sign # y.sign THEN (IF x.sign < y.sign THEN -1 ELSE 1)
    ELSE IF x.sign = 0 THEN 0
    ELSE IF x.m = <<>> THEN (IF y.m = <<>> THEN 0 ELSE x.sign)
    ELSE IF y.m = <<>> THEN 0 - y.sign
    ELSE LET top_x == Top(x)
             top_y == Top(y)
             e == IF x.e < y.e THEN x.e ELSE y.e
         IN  IF top_x # top_y THEN (IF top_x < top_y THEN 0 - x.sign ELSE x.sign)
             ELSE x.sign * BigCmp(BigShl(x.m, x.e - e), BigShl(y.m, y.e - e))

\* x < y: False with a NaN
Less(x, y) == Cmp(x, y) = -1

\* The float nearest to x, ties to the even significand: the bits below the
\* 53rd, and those below 2^-1074, are rounded away, and a result from 2^1024
\* on is an infinity.  float(n) of an int n raises OverflowError there.
RoundToFloat(x) ==
    LET len == BigBitLen(x.m)
        q == IF len - FloatBits > MinExponent - x.e
             THEN len - FloatBits ELSE MinExponent - x.e
        \* t, or t + 1 when the bits cut off compare as c with half of 2^q:
        \* above it, or equal to it with t odd
        nearest(t, c) ==
            IF c > 0 \/ (c = 0 /\ t # <<>> /\ t[1] % 2 = 1)
            THEN BigAdd(t, <<1>>) ELSE t
        cut(t) ==
            nearest(t, BigCmp(BigSub(x.m, BigShl(t, q)), BigShl(<<1>>, q - 1)))
        finite(r) == IF Top(r) > MaxExponent THEN Inf(x.sign) ELSE r
    IN  IF x.m = <<>> THEN x
        ELSE IF q <= 0 THEN finite(x)
        ELSE finite(Num(x.sign, cut(BigShr(x.m, q)), x.e + q))

\* float + float, float - float, float * float
FloatAdd(x, y) ==
    IF x = NaN \/ y = NaN THEN NaN
    ELSE IF IsInf(x) THEN (IF IsInf(y) /\ y.sign # x.sign THEN NaN ELSE x)
    ELSE IF IsInf(y) THEN y
    ELSE RoundToFloat(StickyAdd(x, y))
FloatSub(x, y) == FloatAdd(x, Neg(y))
FloatMul(x, y) ==
    IF x = NaN \/ y = NaN THEN NaN
    ELSE IF IsInf(x) \/ IsInf(y)
    THEN (IF x = Zero \/ y = Zero THEN NaN ELSE Inf(x.sign * y.sign))
    ELSE RoundToFloat(ExactMul(x, y))

\* x / y of finite floats, y # 0: the quotient of the naturals to 56 bits or
\* more, with one more bit set when the division leaves a rest, rounded.
FloatDiv(x, y) ==
    IF x.sign = 0 THEN Zero
    ELSE LET need == BigBitLen(y.m) - BigBitLen(x.m) + FloatBits + 3
             k == IF need > 0 THEN need ELSE 0
             rounded(d) ==
                 RoundToFloat(Num(x.sign * y.sign,
                                  BigAdd(BigShl(d.q, 1),
                                         IF d.exact THEN <<>> ELSE <<1>>),
                                  x.e - y.e - k - 1))
         IN  rounded(BigDiv(BigShl(x.m, k), y.m))

\* sqrt(x) of a finite float x >= 0: the root of the natural m * 2^k to 60
\* bits, with k making the exponent even, and one more bit set when the root
\* is not exact, rounded.
FloatSqrt(x) ==
    IF x.sign = 0 THEN Zero
    ELSE LET most == 8 * LimbBits - BigBitLen(x.m)
             k == IF (x.e - most) % 2 = 0 THEN most ELSE most - 1
             rounded(s) ==
                 RoundToFloat(Num(1,
                                  BigAdd(BigShl(s.root, 1),
                                         IF s.rest = <<>> THEN <<>> ELSE <<1>>),
                                  (x.e - k) \div 2 - 1))
         IN  rounded(BigSqrt(BigShl(x.m, k)))

\* The least value that rounds to an infinity, 2^1024 - 2^970: half way from
\* the greatest float to 2^1024.
LeastTooLarge == [sign |-> 1, m |-> <<32767, 32767, 32767, 511>>, e |-> 970]

\* A Python number with its type.
PyFloat(value) == [kind |-> "float", value |-> value]
PyInt(n) == [kind |-> "int", value |-> FromInt(n)]

\* float(a), and whether it raises "int too large to convert to float": for
\* an int that rounds to an infinity.
ToFloat(a) == IF a.kind = "float" THEN a.value ELSE RoundToFloat(a.value)
TooLarge(a) ==
    /\ a.kind = "int"
    /\ a.value.sign # 0
    /\ Cmp([a.value EXCEPT !.sign = 1], LeastTooLarge) >= 0

\* The error of a + b, a - b or a * b: the int of a mixed pair is converted.
ArithError(a, b) ==
    IF a.kind # b.kind /\ (TooLarge(a) \/ TooLarge(b))
    THEN "OverflowError" ELSE "none"

\* a + b, a - b, a * b: exact on two ints, a float operation otherwise.
PyAdd(a, b) ==
    IF a.kind = "int" /\ b.kind = "int"
    THEN [kind |-> "int", value |-> ExactAdd(a.value, b.value)]
    ELSE PyFloat(FloatAdd(ToFloat(a), ToFloat(b)))
PySub(a, b) ==
    IF a.kind = "int" /\ b.kind = "int"
    THEN [kind |-> "int", value |-> ExactAdd(a.value, Neg(b.value))]
    ELSE PyFloat(FloatSub(ToFloat(a), ToFloat(b)))
PyMul(a, b) ==
    IF a.kind = "int" /\ b.kind = "int"
    THEN [kind |-> "int", value |-> ExactMul(a.value, b.value)]
    ELSE PyFloat(FloatMul(ToFloat(a), ToFloat(b)))

\* a / 2: the float nearest to the half, also of an int; the half of an int
\* raises OverflowError from 2^1024 on.
PyHalf(a) ==
    PyFloat(IF a.value.m = <<>> THEN a.value
            ELSE RoundToFloat(Num(a.value.sign, a.value.m, a.value.e - 1)))
HalfError(a) ==
    IF a.kind = "int" /\ IsInf(PyHalf(a).value) THEN "OverflowError" ELSE "none"

\* max(a, b) and min(a, b): b when b > a, or b < a, and a otherwise, which
\* is a also when one of them is NaN.
PyMax(a, b) == IF Less(a.value, b.value) THEN b ELSE a
PyMin(a, b) == IF Less(b.value, a.value) THEN b ELSE a

----------------------------------------------------------------------------
(* SparseRewardEnvironment: a 2d arena [0, length] x [0, height].          *)
(* A position is <<x, y>> of two Python numbers, and None is <<>>.         *)

NoPosition == <<>>

SparseRewardEnvironmentObservation(agent_position, goal) ==
    [agent_position |-> agent_position, goal |-> goal]

\* 2^60, an int that floats around it cannot tell from its neighbours.
LargeInt == [kind |-> "int", value |-> [sign |-> 1, m |-> <<1>>, e |-> 60]]

\* The arguments of the constructor.
Lengths == {PyInt(2), PyInt(3), LargeInt}
Heights == {PyInt(2)}
Durations == {2}
\* 1.0238139254967324: the float after 1.0238139254967322, which is the x
\* the agent has after NearMove from the centre of an arena of length 2.
NearDistance == PyFloat([sign |-> 1, m |-> <<10849, 27622, 1578, 131>>, e |-> -52])
RewardDistances == {PyInt(1), PyInt(2), NearDistance}
\* (0.023813925496732224, -2) and (0.0, 1.5077544846680685e-08): after the
\* two the agent is at (1.0238139254967322, 1.5077544846680685e-08), whose
\* distance from (0.0, 0.0) is less than NearDistance, and nearer to
\* 1.0238139254967322 than to it.
NearMove ==
    <<PyFloat([sign |-> 1, m |-> <<6483, 11103, 3121>>, e |-> -47]), PyInt(-2)>>
NearRise ==
    <<PyFloat(Zero), PyFloat([sign |-> 1, m |-> <<27021, 29364, 12411, 32>>, e |-> -76])>>
\* The vectors step is called with: ints, floats with a NaN, and the two
\* moves to the position above.
Deltas ==
    {<<PyInt(-2), PyInt(0)>>, <<PyInt(1), PyInt(0)>>,
     <<PyInt(0), PyInt(1)>>, <<PyInt(1), PyInt(1)>>, <<LargeInt, PyInt(0)>>,
     <<PyFloat(NaN), PyFloat(Zero)>>, <<PyInt(1), PyFloat(NaN)>>,
     NearMove, NearRise}

\* reset: (self._length / 2, self._height / 2), the centre of the arena.
Centre(length, height) == <<PyHalf(length), PyHalf(height)>>

\* random.random(): k * 2^-53 for a natural k below 2^53.  reset draws two,
\* one after the other; the pairs of the model are 0.0 twice,
\* 0.8444218515250481 and 0.7579544029403025, the first two after
\* random.seed(0), and 0.0 and 0.8444218515250481.
RandomDraws ==
    {<<Zero, Zero>>,
     <<[sign |-> 1, m |-> <<16095, 31114, 2817, 108>>, e |-> -52],
       [sign |-> 1, m |-> <<19981, 6031, 595, 97>>, e |-> -52]>>,
     <<Zero, [sign |-> 1, m |-> <<16095, 31114, 2817, 108>>, e |-> -52]>>}

\* random.uniform(a, b): a + (b - a) * self.random()
uniform(a, b, draw) == PyAdd(a, PyMul(PySub(b, a), PyFloat(draw)))
uniform_error(a, b) ==
    IF /\ ArithError(b, a) = "none"
       /\ ArithError(PySub(b, a), PyFloat(Zero)) = "none"
       /\ ArithError(a, PyFloat(Zero)) = "none"
    THEN "none" ELSE "OverflowError"

\* reset: the goals the two calls of random.uniform may draw.
Goals(length, height) ==
    {<<uniform(PyInt(0), length, draws[1]), uniform(PyInt(0), height, draws[2])>> :
        draws \in RandomDraws}

\* reset(): the fields after the call with the goal drawn, or the error
\* raised and the fields assigned before it.
reset(cfg, pos, goal, step_count, drawn) ==
    IF HalfError(cfg.length) # "none" \/ HalfError(cfg.height) # "none"
    THEN [error |-> "OverflowError", pos |-> pos, goal |-> goal,
          step_count |-> step_count]
    ELSE IF uniform_error(PyInt(0), cfg.length) # "none"
            \/ uniform_error(PyInt(0), cfg.height) # "none"
    THEN [error |-> "OverflowError", pos |-> Centre(cfg.length, cfg.height),
          goal |-> goal, step_count |-> step_count]
    ELSE [error |-> "none", pos |-> Centre(cfg.length, cfg.height),
          goal |-> drawn, step_count |-> 0]

\* _update_position: the new position, each coordinate clipped to the arena
\* unless it is NaN, and the error of the two sums.
update_position(pos, delta, length, height) ==
    <<PyMax(PyMin(PyAdd(pos[1], delta[1]), length), PyInt(0)),
      PyMax(PyMin(PyAdd(pos[2], delta[2]), height), PyInt(0))>>
update_position_error(pos, delta) ==
    IF ArithError(pos[1], delta[1]) = "none" /\ ArithError(pos[2], delta[2]) = "none"
    THEN "none" ELSE "OverflowError"

\* vector_norm of math.dist keeps the sum of the squares in csum, which
\* starts at 1.0, and what the additions to csum rounded away in frac1,
\* frac2 and frac3.
T27 == [sign |-> 1, m |-> <<1, 4096>>, e |-> 0]
NoSquares == [csum |-> FromInt(1), frac |-> <<Zero, Zero, Zero>>]

\* t = x * T27; hi = t - (t - x); lo = x - hi: x in two halves of 26 bits.
Split(x) ==
    The({[hi |-> hi, lo |-> FloatSub(x, hi)] :
            hi \in {FloatSub(t, FloatSub(t, x)) : t \in {FloatMul(x, T27)}}})

\* hi * hi, 2.0 * hi * lo and lo * lo for the halves of x, and with negative
\* -hi * hi, -2.0 * hi * lo and -lo * lo.
Squares(x, negative) ==
    LET signed(v) == IF negative THEN Neg(v) ELSE v
    IN  The({<<FloatMul(signed(s.hi), s.hi),
               FloatMul(FloatMul(signed(FromInt(2)), s.hi), s.lo),
               FloatMul(signed(s.lo), s.lo)>> : s \in {Split(x)}})

\* For the first k of the terms xs, the i-th with frac[i]:
\*   oldcsum = csum; csum += x; frac += (oldcsum - csum) + x
RECURSIVE Accumulate(_, _, _)
Accumulate(acc, xs, k) ==
    IF k = 0 THEN acc
    ELSE The({The({[csum |-> new,
                    frac |-> [old.frac EXCEPT ![k] =
                                 FloatAdd(@, FloatAdd(FloatSub(old.csum, new), xs[k]))]] :
                      new \in {FloatAdd(old.csum, xs[k])}}) :
                 old \in {Accumulate(acc, xs, k - 1)}})

\* The loop over the coordinates, each scaled by a power of 2 that brings
\* the greatest below 1.0: hi * hi and 2.0 * hi * lo go to csum, and lo * lo,
\* too small for csum, to frac3.
AddSquare(acc, xs) == [Accumulate(acc, xs, 2) EXCEPT !.frac[3] = FloatAdd(@, xs[3])]
RECURSIVE SumSquares(_, _, _)
SumSquares(vec, scale, i) ==
    IF i = 0 THEN NoSquares
    ELSE AddSquare(SumSquares(vec, scale, i - 1),
                   Squares(FloatMul(vec[i], scale), FALSE))

\* csum - 1.0 + (frac1 + frac2 + frac3)
TotalSquares(acc) ==
    FloatAdd(FloatSub(acc.csum, FromInt(1)),
             FloatAdd(FloatAdd(acc.frac[1], acc.frac[2]), acc.frac[3]))

\* h = sqrt(csum - 1.0 + (frac1 + frac2 + frac3)) is corrected once: the
\* square of h is taken off the sum in its three terms, and
\* h += x / (2.0 * h) for the x that is left.
CorrectRoot(acc, h) ==
    FloatAdd(h, FloatDiv(TotalSquares(Accumulate(acc, Squares(h, TRUE), 3)),
                         FloatMul(FromInt(2), h)))

\* The loop for a greatest coordinate below 2^-1023, whose scale would
\* overflow: x = vec[i] / max; x = x * x; and csum and frac1 as above.
RECURSIVE SumSmallSquares(_, _, _)
SumSmallSquares(vec, max, i) ==
    IF i = 0 THEN NoSquares
    ELSE Accumulate(SumSmallSquares(vec, max, i - 1),
                    The({<<FloatMul(x, x)>> : x \in {FloatDiv(vec[i], max)}}), 1)

\* vector_norm(n, vec, max, found_nan): the root of the sum of the squares
\* of vec, whose greatest member is max, as math.dist computes it.
vector_norm(vec, max, found_nan) ==
    IF IsInf(max) THEN max
    ELSE IF found_nan THEN NaN
    ELSE IF max = Zero \/ Len(vec) <= 1 THEN max
    ELSE IF Top(max) >= -1023
    THEN The({FloatDiv(CorrectRoot(s.acc, FloatSqrt(TotalSquares(s.acc))), s.scale) :
                 s \in {[scale |-> scale, acc |-> SumSquares(vec, scale, Len(vec))] :
                            scale \in {[sign |-> 1, m |-> <<1>>, e |-> 0 - Top(max)]}}})
    ELSE The({FloatMul(max, FloatSqrt(FloatAdd(FloatSub(acc.csum, FromInt(1)),
                                               acc.frac[1]))) :
                 acc \in {SumSmallSquares(vec, max, Len(vec))}})

\* The greatest of the first i members of vec.
RECURSIVE VecMax(_, _)
VecMax(vec, i) ==
    IF i = 0 THEN Zero
    ELSE The({IF Less(max, vec[i]) THEN vec[i] ELSE max :
                 max \in {VecMax(vec, i - 1)}})

\* math.dist(p, q): the float vector_norm returns for the floats
\* fabs(p[i] - q[i]); an infinity with an infinite difference, and otherwise
\* NaN with a NaN.  A coordinate is converted to a float first, which may
\* raise.
dist(p, q) ==
    LET fabs(x) == IF x.sign < 0 THEN Neg(x) ELSE x
    IN  The({vector_norm(diffs, VecMax(diffs, Len(diffs)),
                         \E i \in 1..Len(diffs) : diffs[i] = NaN) :
                diffs \in {[i \in 1..Len(p) |->
                               fabs(FloatSub(ToFloat(p[i]), ToFloat(q[i])))]}})
dist_error(p, q) ==
    IF \E i \in 1..2 : TooLarge(p[i]) \/ TooLarge(q[i])
    THEN "OverflowError" ELSE "none"

\* Mutant of check_win: a position at exactly reward_distance wins too.
check_win_inclusive(pos, goal, reward_distance) ==
    Cmp(dist(pos, goal), reward_distance.value) \in {-1, 0}

\* _check_win: math.dist(position, goal) < reward_distance.
check_win(pos, goal, reward_distance) ==
    Less(dist(pos, goal), reward_distance.value)

NoObservation == SparseRewardEnvironmentObservation(NoPosition, NoPosition)

NoSparseCall ==
    [op |-> "none", action |-> 0, error |-> "none",
     result |-> ActionResult(NoObservation, 0, FALSE, FALSE, None)]

\* The error of unpacking delta and self._agent_position in _update_position.
UnpackError(pos, delta) ==
    IF Len(delta) # 2 THEN "ValueError"
    ELSE IF pos = NoPosition THEN "TypeError"
    ELSE "none"

\* ContinuousSparseRewardEnvironment.step(action): the fields after the call
\* and the ActionResult, or the error raised: in _update_position before any
\* assignment, in _check_win after that of the position.
continuous_step(cfg, pos, goal, step_count, delta) ==
    LET raised(error, at) ==
            [error |-> error, pos |-> at, step_count |-> step_count,
             result |-> NoSparseCall.result]
        steps == step_count + 1
        returned(new, has_win) ==
            [error |-> "none", pos |-> new, step_count |-> steps,
             result |-> ActionResult(
                 SparseRewardEnvironmentObservation(new, goal),
                 IF has_win THEN 0 ELSE -1,
                 has_win \/ steps >= cfg.max_episode_duration,
                 FALSE, None)]
    IN  IF UnpackError(pos, delta) # "none" THEN raised(UnpackError(pos, delta), pos)
        ELSE IF update_position_error(pos, delta) # "none"
        THEN raised(update_position_error(pos, delta), pos)
        ELSE The({IF goal = NoPosition THEN raised("TypeError", new)
                  ELSE IF dist_error(new, goal) # "none"
                  THEN raised(dist_error(new, goal), new)
                  ELSE returned(new, check_win(new, goal, cfg.reward_distance)) :
                     new \in {update_position(pos, delta, cfg.length, cfg.height)}})

\* The arguments of the constructor of the discrete environment; the float
\* is 0.01, the default step_size.
StepSizes ==
    {PyFloat([sign |-> 1, m |-> <<5243, 3932, 27525, 163>>, e |-> -59]),
     PyInt(0), PyInt(1), PyInt(2)}
ActionCounts == {1, 2, 4}
GivenRewardDistances == {[given |-> FALSE, value |-> PyInt(0)],
                         [given |-> TRUE, value |-> PyInt(2)]}
\* The indices step is called with: every valid one and the two next to them.
DiscreteInputs(action_count) == (-1)..action_count

\* math.cos(2 * math.pi / action_count * i) and math.sin of the same angle:
\* the floats the library returns for action_count from 1 to 4.  The angle
\* is a float next to a multiple of pi / 2 or of 2 * pi / 3, not that
\* multiple, so a cosine or sine that would be 0 is a float near 1e-16:
\*   6.123233995736766e-17, 1.2246467991473532e-16, -1.8369701987210297e-16
\* and with action_count 3 the values are
\*   -0.4999999999999998, 0.8660254037844387,
\*   -0.5000000000000004, -0.8660254037844384.
CosTable ==
    << <<FromInt(1)>>,
       <<FromInt(1), FromInt(-1)>>,
       <<FromInt(1),
         [sign |-> -1, m |-> <<32767, 32767, 32767, 63>>, e |-> -52],
         [sign |-> -1, m |-> <<1, 0, 0, 32>>, e |-> -51]>>,
       <<FromInt(1),
         [sign |-> 1, m |-> <<23559, 26152, 6296, 141>>, e |-> -106],
         FromInt(-1),
         [sign |-> -1, m |-> <<17669, 19614, 29298, 105>>, e |-> -104]>> >>
SinTable ==
    << <<Zero>>,
       <<Zero, [sign |-> 1, m |-> <<23559, 26152, 6296, 141>>, e |-> -105]>>,
       <<Zero,
         [sign |-> 1, m |-> <<19627, 20656, 23019, 221>>, e |-> -53],
         [sign |-> -1, m |-> <<2453, 14870, 23357, 27>>, e |-> -50]>>,
       <<Zero,
         FromInt(1),
         [sign |-> 1, m |-> <<23559, 26152, 6296, 141>>, e |-> -105],
         FromInt(-1)>> >>
Cos(i, action_count) == CosTable[action_count][i + 1]
Sin(i, action_count) == SinTable[action_count][i + 1]

RECURSIVE Repeat(_, _)
Repeat(t, k) == IF k <= 0 THEN <<>> ELSE t \o Repeat(t, k - 1)

\* tuple * number: a float raises TypeError, an int k repeats the tuple k
\* times, for a k the model can count to.
PyTupleTimes(t, number) ==
    IF number.kind = "float" THEN [error |-> "TypeError", value |-> <<>>]
    ELSE [error |-> "none",
          value |-> Repeat(t, IF number.value.sign <= 0 THEN 0
                              ELSE BigToNat(BigShl(number.value.m, number.value.e)))]

\* DiscreteSparseRewardEnvironment.__init__: the list self._actions, or the
\* error the list comprehension raises.
build_actions(step_size, action_count) ==
    LET entry(i) == PyTupleTimes(<<PyFloat(Cos(i, action_count)),
                                   PyFloat(Sin(i, action_count))>>,
                                 step_size)
    IN  IF \E i \in 0..(action_count - 1) : entry(i).error # "none"
        THEN [error |-> "TypeError", actions |-> <<>>]
        ELSE [error |-> "none",
              actions |-> [n \in 1..action_count |-> entry(n - 1).value]]

\* action_space: DiscreteActionSpace(range(action_count)).
action_space(action_count) == 0..(action_count - 1)

\* Mutant of assert_ok: the upper bound is off by one.
assert_ok_inclusive(action, action_count) ==
    action <= action_count /\ action >= 0

\* assert action < self._action_count and action >= 0
assert_ok(action, action_count) ==
    action < action_count /\ action >= 0

\* self._actions[action]: a list index, negative ones counting from the end.
PyListIndex(list, i) ==
    IF i >= Len(list) \/ i < 0 - Len(list)
    THEN [error |-> "IndexError", value |-> <<>>]
    ELSE [error |-> "none", value |-> list[IF i >= 0 THEN i + 1 ELSE Len(list) + i + 1]]

\* DiscreteSparseRewardEnvironment.step(action)
discrete_step(cfg, pos, goal, step_count, action) ==
    LET unchanged(error) ==
            [error |-> error, pos |-> pos, step_count |-> step_count,
             result |-> NoSparseCall.result]
    IN  IF ~assert_ok(action, cfg.action_count) THEN unchanged("AssertionError")
        ELSE IF PyListIndex(cfg.actions, action).error # "none"
        THEN unchanged(PyListIndex(cfg.actions, action).error)
        ELSE continuous_step(cfg, pos, goal, step_count,
                             PyListIndex(cfg.actions, action).value)

\* The fields before any environment is built.
InitSparse ==
    /\ sCfg = [kind |-> "none"]
    /\ sPos = NoPosition
    /\ sGoal = NoPosition
    /\ sStepCount = 0
    /\ sRet = NoSparseCall

InitRest == InitSparse /\ InitLin /\ InitTwin

----------------------------------------------------------------------------
(* The replay buffer as a state machine. *)

NoCall == [op |-> "none", arg |-> Transition(NoValue, NoValue, 0), k |-> 0,
           idx |-> <<>>, error |-> "none", batch |-> NoBatch, n |-> 0]

InitBuffer ==
    /\ memory = <<>>
    /\ count = 0
    /\ seqs = <<>>
    /\ pre = <<>>
    /\ ret = NoCall

InitEnv ==
    /\ envSteps = <<>>
    /\ envCalls = <<>>
    /\ envResult = NoResult

InitAct ==
    /\ actIn = <<>>
    /\ actOut = NoAct

\* __init__(capacity)
Init ==
    /\ capacity \in 1..MaxCapacity
    /\ InitBuffer
    /\ InitEnv
    /\ InitAct
    /\ InitRest

\* push(state, action, reward, ...)
Push ==
    /\ count < MaxPushes
    /\ \E state \in States, action \in Actions, reward \in Rewards :
        /\ memory' = push(memory, capacity, state, action, reward)
        /\ ret' = [NoCall EXCEPT !.op = "push",
                                 !.arg = Transition(state, action, reward)]
    /\ count' = count + 1
    /\ seqs' = DequeAppend(seqs, count + 1, capacity)
    /\ pre' = memory
    /\ UNCHANGED <<capacity, envVars, actVars, restVars>>

\* Mutant of Sample: the drawn transitions are taken out of the buffer.
SampleDraining ==
    /\ \E k \in BatchSizes :
        \E draw \in RandomSample(Len(memory), k) :
            LET out == sample(memory, draw)
            IN  /\ ret' = [NoCall EXCEPT !.op = "sample", !.k = k, !.idx = draw.idx,
                                         !.error = out.error, !.batch = out.batch]
                /\ memory' = [i \in 1..(Len(memory) - Len(draw.idx)) |-> memory[i]]
    /\ pre' = memory
    /\ UNCHANGED <<capacity, count, seqs, envVars, actVars, restVars>>

\* sample(batch_size)
Sample ==
    /\ \E k \in BatchSizes :
        \E draw \in RandomSample(Len(memory), k) :
            LET out == sample(memory, draw)
            IN  ret' = [NoCall EXCEPT !.op = "sample", !.k = k, !.idx = draw.idx,
                                      !.error = out.error, !.batch = out.batch]
    /\ pre' = memory
    /\ UNCHANGED <<capacity, memory, count, seqs, envVars, actVars, restVars>>

\* __len__()
LenCall ==
    /\ ret' = [NoCall EXCEPT !.op = "len", !.n = Len(memory)]
    /\ pre' = memory
    /\ UNCHANGED <<capacity, memory, count, seqs, envVars, actVars, restVars>>

Next == Push \/ Sample \/ LenCall

Spec == Init /\ [][Next]_vars

----------------------------------------------------------------------------
(* The environment as a state machine. *)

\* step(action), with r the reward the implementation's get_reward returns.
Step ==
    /\ Len(envSteps) < MaxSteps
    /\ \E action \in EnvActions, r \in EnvRewards :
        LET out == step(action, r, envCalls)
        IN  /\ envSteps' = Append(envSteps, action)
            /\ envCalls' = out.calls
            /\ envResult' = out.result
    /\ UNCHANGED <<bufVars, actVars, restVars>>

InitEnvOnly ==
    /\ capacity = 1
    /\ InitBuffer
    /\ InitEnv
    /\ InitAct
    /\ InitRest

SpecEnv == InitEnvOnly /\ [][Step]_vars

----------------------------------------------------------------------------
(* act is a function of the scores of the candidate actions: the scores are  *)
(* drawn at the start, one row per state, and one call of act is applied.  *)

\* The score matrices act may be given: rows states by n candidate actions.
ScoreMatrices ==
    UNION {[1..rows -> [1..n -> ScoreValues]] :
            rows \in 1..MaxRows, n \in 1..MaxActionCount}

InitActOnly ==
    /\ capacity = 1
    /\ InitBuffer
    /\ InitEnv
    /\ actIn \in ScoreMatrices
    /\ actOut = NoAct
    /\ InitRest

\* act(subjective_state, action_space) on a single state.
ActSingle ==
    /\ actOut = NoAct
    /\ Len(actIn) = 1
    /\ actOut' = [kind |-> "single", value |-> act(actIn)]
    /\ UNCHANGED <<bufVars, envVars, actIn, restVars>>

\* act(subjective_state, action_space) on a batch of states.
ActBatch ==
    /\ actOut = NoAct
    /\ actOut' = [kind |-> "batch", value |-> act(actIn)]
    /\ UNCHANGED <<bufVars, envVars, actIn, restVars>>

NextAct == ActSingle \/ ActBatch

SpecAct == InitActOnly /\ [][NextAct]_vars

----------------------------------------------------------------------------
(* ContinuousSparseRewardEnvironment as a state machine. *)

\* SparseRewardEnvironment.__init__(length, height, max_episode_duration,
\* reward_distance)
InitSparseOnly ==
    /\ capacity = 1
    /\ InitBuffer
    /\ InitEnv
    /\ InitAct
    /\ \E length \in Lengths, height \in Heights,
          duration \in Durations, distance \in RewardDistances :
        sCfg = [kind |-> "continuous", length |-> length, height |-> height,
                max_episode_duration |-> duration, reward_distance |-> distance]
    /\ sPos = NoPosition
    /\ sGoal = NoPosition
    /\ sStepCount = 0
    /\ sRet = NoSparseCall
    /\ InitLin
    /\ InitTwin

\* reset()
SparseReset ==
    /\ \E drawn \in Goals(sCfg.length, sCfg.height) :
        \E out \in {reset(sCfg, sPos, sGoal, sStepCount, drawn)} :
            /\ sPos' = out.pos
            /\ sGoal' = out.goal
            /\ sStepCount' = out.step_count
            /\ sRet' = [NoSparseCall EXCEPT !.op = "reset", !.error = out.error]
    /\ UNCHANGED <<bufVars, envVars, actVars, linVars, twinVars, sCfg>>

\* step(action) with action a vector (delta_x, delta_y)
ContinuousStep ==
    /\ sStepCount < MaxEpisodeSteps
    /\ \E delta \in Deltas :
        \E out \in {continuous_step(sCfg, sPos, sGoal, sStepCount, delta)} :
            /\ sPos' = out.pos
            /\ sStepCount' = out.step_count
            /\ sRet' = [op |-> "step", action |-> 0, error |-> out.error,
                        result |-> out.result]
    /\ UNCHANGED <<bufVars, envVars, actVars, linVars, twinVars, sCfg, sGoal>>

NextSparse == SparseReset \/ ContinuousStep

SpecSparse == InitSparseOnly /\ [][NextSparse]_vars

----------------------------------------------------------------------------
(* DiscreteSparseRewardEnvironment as a state machine. *)

\* DiscreteSparseRewardEnvironment.__init__(length, height, step_size,
\* action_count, max_episode_duration, reward_distance): the state after the
\* constructor has returned or raised.
InitDiscreteOnly ==
    /\ capacity = 1
    /\ InitBuffer
    /\ InitEnv
    /\ InitAct
    /\ \E length \in Lengths, height \in Heights, step_size \in StepSizes,
          action_count \in ActionCounts, duration \in Durations,
          distance \in GivenRewardDistances :
        LET built == build_actions(step_size, action_count)
        IN  sCfg = [kind |-> "discrete", length |-> length, height |-> height,
                    max_episode_duration |-> duration,
                    reward_distance |->
                        IF distance.given THEN distance.value ELSE step_size,
                    step_size |-> step_size, action_count |-> action_count,
                    ctor_error |-> built.error, actions |-> built.actions]
    /\ sPos = NoPosition
    /\ sGoal = NoPosition
    /\ sStepCount = 0
    /\ sRet = NoSparseCall
    /\ InitLin
    /\ InitTwin

\* reset()
DiscreteReset ==
    /\ sCfg.ctor_error = "none"
    /\ \E drawn \in Goals(sCfg.length, sCfg.height) :
        \E out \in {reset(sCfg, sPos, sGoal, sStepCount, drawn)} :
            /\ sPos' = out.pos
            /\ sGoal' = out.goal
            /\ sStepCount' = out.step_count
            /\ sRet' = [NoSparseCall EXCEPT !.op = "reset", !.error = out.error]
    /\ UNCHANGED <<bufVars, envVars, actVars, linVars, twinVars, sCfg>>

\* step(action) with action an index
DiscreteStep ==
    /\ sCfg.ctor_error = "none"
    /\ sStepCount < MaxEpisodeSteps
    /\ \E action \in DiscreteInputs(sCfg.action_count) :
        \E out \in {discrete_step(sCfg, sPos, sGoal, sStepCount, action)} :
            /\ sPos' = out.pos
            /\ sStepCount' = out.step_count
            /\ sRet' = [op |-> "step", action |-> action, error |-> out.error,
                        result |-> out.result]
    /\ UNCHANGED <<bufVars, envVars, actVars, linVars, twinVars, sCfg, sGoal>>

NextDiscrete == DiscreteReset \/ DiscreteStep

SpecDiscrete == InitDiscreteOnly /\ [][NextDiscrete]_vars

----------------------------------------------------------------------------
(* The LinUCB statistics as a state machine. *)

InitLinOnly ==
    /\ capacity = 1
    /\ InitBuffer
    /\ InitEnv
    /\ InitAct
    /\ InitSparse
    /\ InitLin
    /\ InitTwin

RowsSoFar == LET RECURSIVE Total(_)
                 Total(bs) == IF bs = <<>> THEN 0
                              ELSE Len(Head(bs)) + Total(Tail(bs))
             IN  Total(linBatches)

\* update(batch) with a batch of one or more rows
LinUpdate ==
    /\ \E n \in 1..(MaxLinRows - RowsSoFar) :
        \E batch \in [1..n -> LinRows] :
            LET out == update([A |-> linA, b |-> linB], batch)
            IN  /\ linA' = out.A
                /\ linB' = out.b
                /\ linBatches' = Append(linBatches, batch)
    /\ UNCHANGED <<bufVars, envVars, actVars, sparseVars, twinVars>>

SpecLinUCB == InitLinOnly /\ [][LinUpdate]_vars

----------------------------------------------------------------------------
(* Two buffers pushed with the same state, action and reward. *)

InitTwinOnly ==
    /\ capacity \in 1..MaxCapacity
    /\ InitBuffer
    /\ InitEnv
    /\ InitAct
    /\ InitRest

\* The same push on both buffers: the second one with the reference values of
\* the arguments the buffer does not need, the first one with any values.
TwinPush ==
    /\ count < MaxTwinPushes
    /\ \E state \in States, action \in Actions, reward \in Rewards,
          others \in OtherArguments :
        /\ memory' = push_call(memory, capacity, state, action, reward, others)
        /\ memory2' = push_call(memory2, capacity, state, action, reward,
                                ReferenceArguments)
        /\ differed' = (others # ReferenceArguments)
    /\ count' = count + 1
    /\ UNCHANGED <<capacity, seqs, pre, ret, envVars, actVars, sparseVars, linVars>>

SpecPush == InitTwinOnly /\ [][TwinPush]_vars

----------------------------------------------------------------------------
(* Helpers of the properties. *)

Min(a, b) == IF a < b THEN a ELSE b

Last(q) == q[Len(q)]

Front(q) == SubSeq(q, 1, Len(q) - 1)

\* Row i of a tensor: its elements under leading index i.
RowSize(t) == Product(Tail(t.shape))
Row(t, i) == SubSeq(t.data, (i - 1) * RowSize(t) + 1, i * RowSize(t))
Rows(t) == Head(t.shape)

SampleOk == ret.op = "sample" /\ ret.error = "none"

----------------------------------------------------------------------------
(* Properties of the replay buffer. *)

\* C1: after n pushes into a buffer of capacity C >= 1 the buffer holds the
\* last min(n, C) pushed transitions in insertion order: the stored elements
\* are those of pushes n - min(n, C) + 1 .. n, a push stores its arguments as
\* the newest element, and it keeps every older element except, when the
\* buffer was full, the oldest one.
C1_FifoEviction ==
    LET len == Min(count, capacity)
    IN  /\ Len(memory) = Len(seqs)
        /\ seqs = [i \in 1..len |-> count - len + i]
        /\ ret.op = "push" =>
            /\ Last(memory).state.data = ret.arg.state.data
            /\ Last(memory).action.data = ret.arg.action.data
            /\ Last(memory).reward.data = <<ret.arg.reward>>
            /\ Front(memory) = IF Len(pre) >= capacity THEN Tail(pre) ELSE pre

\* C1 witness: a push into a full buffer of capacity 2 has evicted.
C1_Witness ==
    /\ ret.op = "push"
    /\ capacity = 2
    /\ count = 3
    /\ Len(pre) = 2
    /\ memory[1] = pre[2]
    /\ memory[1] # pre[1]

\* C2: in every reachable state len(buffer) <= capacity and len(buffer) is
\* min(number of pushes so far, capacity); __len__ returns that length.
C2_LengthBound ==
    /\ Len(memory) <= capacity
    /\ Len(memory) = Min(count, capacity)
    /\ ret.op = "len" => ret.n = Min(count, capacity)

\* C2 witness: __len__ called after more pushes than the capacity.
C2_Witness == ret.op = "len" /\ count > capacity /\ ret.n = capacity

C4_WithoutReplacement ==
    SampleOk =>
        /\ Len(ret.idx) = ret.k
        /\ Rows(ret.batch.state) = ret.k
        /\ \A i \in 1..ret.k : ret.idx[i] \in 1..Len(memory)
        /\ \A i, j \in 1..ret.k : i # j => ret.idx[i] # ret.idx[j]
        /\ ret.k = Len(memory) =>
            \A p \in 1..Len(memory) :
                Cardinality({i \in 1..ret.k : ret.idx[i] = p}) = 1

\* C4 witness: a successful sample of the whole of a buffer of two.
C4_Witness == SampleOk /\ ret.k = 2 /\ Len(memory) = 2

\* C5: in every batch sample returns, row i of state, action and reward all
\* come from the same stored transition, and the three fields have the same
\* leading dimension batch_size.
C5_RowCorrespondence ==
    SampleOk =>
        /\ Rows(ret.batch.state) = ret.k
        /\ Rows(ret.batch.action) = ret.k
        /\ Rows(ret.batch.reward) = ret.k
        /\ \A i \in 1..ret.k :
            /\ Row(ret.batch.state, i) = memory[ret.idx[i]].state.data
            /\ Row(ret.batch.action, i) = memory[ret.idx[i]].action.data
            /\ Row(ret.batch.reward, i) = memory[ret.idx[i]].reward.data

\* C5 witness: a batch of two rows drawn from transitions that differ in
\* state, action and reward.
C5_Witness ==
    /\ SampleOk
    /\ ret.k = 2
    /\ memory[1].state # memory[2].state
    /\ memory[1].action # memory[2].action
    /\ memory[1].reward # memory[2].reward

\* C6: sample is read-only: whether it succeeds or fails, the contents of the
\* buffer, their order, its length and its capacity are the same after the
\* call as before, and only push changes the contents.
C6_SampleReadOnly ==
    [][/\ ret'.op = "sample" => (memory' = memory /\ capacity' = capacity)
       /\ memory' # memory => ret'.op = "push"]_vars

\* C6 witness: a sample has failed on a buffer that holds transitions.
C6_Witness ==
    /\ ret.op = "sample"
    /\ ret.error = "TypeError"
    /\ Len(memory) = 2

\* C7: sample(0) fails with an error in every buffer state, empty or not,
\* and returns no batch; no successful sample returns fewer rows than
\* requested.
C7_ZeroBatchFails ==
    /\ (ret.op = "sample" /\ ret.k = 0) =>
        (ret.error # "none" /\ ret.batch = NoBatch)
    /\ SampleOk =>
        /\ Rows(ret.batch.state) >= ret.k
        /\ Rows(ret.batch.action) >= ret.k
        /\ Rows(ret.batch.reward) >= ret.k

\* C7 witness: sample(0) has failed on a buffer that is not empty.
C7_Witness ==
    /\ ret.op = "sample"
    /\ ret.k = 0
    /\ memory # <<>>
    /\ ret.error = "RuntimeError"

\* C8 as stated: every stored Transition has state, action and reward in
\* tensor form, so that a sample(k) with 1 <= k <= len(buffer) never fails
\* for want of a tensor.
C8_StoredInTensorForm ==
    /\ \A i \in 1..Len(memory) :
        /\ IsTensor(memory[i].state)
        /\ IsTensor(memory[i].action)
        /\ IsTensor(memory[i].reward)
    /\ (ret.op = "sample" /\ 1 <= ret.k /\ ret.k <= Len(memory)) =>
        ret.error # "TypeError"

----------------------------------------------------------------------------
(* Properties of ContextualBanditEnvironment.step. *)

\* C9: every step(action) returns an ActionResult with terminated = True,
\* truncated = False, observation = None, info = None and the reward that
\* get_reward returned for that same action, and calls get_reward exactly
\* once.
C9_StepResult ==
    /\ Len(envCalls) = Len(envSteps)
    /\ \A i \in 1..Len(envSteps) : envCalls[i].action = envSteps[i]
    /\ envSteps # <<>> =>
        envResult = ActionResult(None, Last(envCalls).reward, TRUE, FALSE, None)

\* C9 witness: two steps with different actions and different rewards.
C9_Witness ==
    /\ Len(envSteps) = 2
    /\ envSteps[1] # envSteps[2]
    /\ envCalls[1].reward # envCalls[2].reward
    /\ envResult.terminated

----------------------------------------------------------------------------
(* Properties of DeepLinearBandit.act. *)

\* C10: act returns one action per row of input; each is an index in
\* [0, action_count) whose score is the greatest of its row, and no earlier
\* index has that score; for a single state it returns one index.
C10_ActArgMax ==
    actOut.kind # "none" =>
        /\ Len(actOut.value) = Len(actIn)
        /\ actOut.kind = "single" => Len(actOut.value) = 1
        /\ \A r \in 1..Len(actIn) :
            LET a == actOut.value[r]
                row == actIn[r]
            IN  /\ a \in 0..(Len(row) - 1)
                /\ \A j \in 1..Len(row) : row[j] <= row[a + 1]
                /\ \A j \in 1..a : row[j] < row[a + 1]

\* C10 witness: a batch of two rows, one of them with a tie for the best
\* score that is not at the first index.
C10_Witness ==
    /\ actOut.kind = "batch"
    /\ Len(actIn) = 2
    /\ actIn[1] = <<0, 1, 1>>
    /\ actOut.value[1] = 1
    /\ actOut.value[2] = 0

----------------------------------------------------------------------------
(* Properties of SparseRewardEnvironment. *)

SparseStepOk == sRet.op = "step" /\ sRet.error = "none"

\* x <= y: False with a NaN
LessEq(x, y) == Cmp(x, y) \in {-1, 0}

\* C11 as stated: after reset and any sequence of step calls with arbitrary
\* deltas the agent position satisfies 0 <= x <= length and 0 <= y <= height.
C11_PositionInArena ==
    sPos # NoPosition =>
        /\ LessEq(Zero, sPos[1].value)
        /\ LessEq(sPos[1].value, sCfg.length.value)
        /\ LessEq(Zero, sPos[2].value)
        /\ LessEq(sPos[2].value, sCfg.height.value)

\* C12: every step returns reward 0 exactly when the position after the move
\* is at distance strictly less than reward_distance from the goal, and -1
\* otherwise; the observation carries the position after the move and the
\* goal, which the step leaves unchanged.
C12_SparseReward ==
    [][(sRet'.op = "step" /\ sRet'.error = "none") =>
        /\ sRet'.result.reward \in {0, -1}
        /\ \E d \in {dist(sPos', sGoal')} :
            sRet'.result.reward = 0 <=> Less(d, sCfg.reward_distance.value)
        /\ sRet'.result.observation.agent_position = sPos'
        /\ sRet'.result.observation.goal = sGoal'
        /\ sGoal' = sGoal]_vars

\* C12 witness: a step has ended at (1.0238139254967322,
\* 1.5077544846680685e-08) with the goal at (0.0, 0.0), where math.dist
\* returns 1.0238139254967324, the reward_distance, and has returned -1.
C12_Witness ==
    /\ SparseStepOk
    /\ sCfg.reward_distance = NearDistance
    /\ sPos[2] = NearRise[2]
    /\ dist(sPos, sGoal) = NearDistance.value
    /\ sRet.result.reward = -1

\* C13 as stated: for every action index n in 0..N-1 the constructor builds
\* the 2-component displacement (cos(2*pi*n/N) * step_size,
\* sin(2*pi*n/N) * step_size), and step(n) applies it.
C13_DisplacementTable ==
    sCfg.kind = "discrete" =>
        /\ sCfg.ctor_error = "none"
        /\ \A n \in 0..(sCfg.action_count - 1) :
            /\ Len(sCfg.actions[n + 1]) = 2
            /\ sCfg.actions[n + 1][1] =
                  PyMul(PyFloat(Cos(n, sCfg.action_count)), sCfg.step_size)
            /\ sCfg.actions[n + 1][2] =
                  PyMul(PyFloat(Sin(n, sCfg.action_count)), sCfg.step_size)
        /\ (sRet.op = "step" /\ sRet.action \in action_space(sCfg.action_count)) =>
            sRet.error # "ValueError"

\* C16: step(action) with an action outside 0..action_count-1 fails its
\* assertion and leaves agent position, goal and step count unchanged; every
\* index in 0..action_count-1, the members of action_space, passes the
\* assertion.
C16_AssertionGuard ==
    [][sRet'.op = "step" =>
        IF sRet'.action \in action_space(sCfg.action_count)
        THEN sRet'.error # "AssertionError"
        ELSE /\ sRet'.error = "AssertionError"
             /\ UNCHANGED <<sPos, sGoal, sStepCount>>]_vars

\* C16 witness: after a step that moved the agent, a step with the index
\* action_count has failed its assertion.
C16_Witness ==
    /\ sRet.op = "step"
    /\ sRet.action = sCfg.action_count
    /\ sRet.error = "AssertionError"
    /\ sStepCount = 1
    /\ sPos # Centre(sCfg.length, sCfg.height)

----------------------------------------------------------------------------
(* Properties of the LinUCB statistics. *)

RECURSIVE Concatenation(_)
Concatenation(bs) == IF bs = <<>> THEN <<>> ELSE Head(bs) \o Concatenation(Tail(bs))

\* The sum over the rows of weight * x[i] * x[j], and of weight * reward * x[i].
RECURSIVE SumA(_, _, _)
SumA(rows, i, j) ==
    IF rows = <<>> THEN 0
    ELSE Head(rows).weight * Head(rows).x[i] * Head(rows).x[j]
            + SumA(Tail(rows), i, j)

RECURSIVE SumB(_, _)
SumB(rows, i) ==
    IF rows = <<>> THEN 0
    ELSE Head(rows).weight * Head(rows).reward * Head(rows).x[i]
            + SumB(Tail(rows), i)

\* C14: updating with one batch after the other yields the same A and b as a
\* single update, from the initial statistics, with the concatenation of the
\* batches; every row adds weight * x x^T to A and weight * reward * x to b,
\* and A and b hold nothing but these additions.
C14_IncrementalUpdate ==
    LET all == Concatenation(linBatches)
        once == update(InitialStats, all)
    IN  /\ linA = once.A
        /\ linB = once.b
        /\ \A i \in DOMAIN linA :
            /\ linB[i] = InitialStats.b[i] + SumB(all, i)
            /\ \A j \in DOMAIN linA[i] :
                linA[i][j] = InitialStats.A[i][j] + SumA(all, i, j)

\* C14 witness: two updates, with different batches, the second of two rows.
C14_Witness ==
    /\ Len(linBatches) = 2
    /\ Len(linBatches[2]) = 2
    /\ linBatches[1][1] # linBatches[2][1]
    /\ linBatches[2][1] # linBatches[2][2]
    /\ linA # InitialStats.A

----------------------------------------------------------------------------
(* Properties of push and the arguments it does not need. *)

\* C15: the buffer after push depends only on the pushed state, action and
\* reward: two buffers that were equal and are pushed with calls that differ
\* only in next_state, curr_available_actions, next_available_actions,
\* action_space or done are equal afterwards.
C15_PushIgnoresOthers == memory = memory2

\* C15 witness: a push into a full buffer whose ignored arguments differed
\* from those of the push on the second buffer.
C15_Witness ==
    /\ differed
    /\ count > capacity
    /\ memory # <<>>
    /\ memory = memory2

====
